---- MODULE Spec2Model ----
(***************************************************************************)
(* Model of endedupe/s3index.py: the sequencer-based optimistic lock       *)
(* (S3Lock over a DynamoDB table) and the retry loop of                    *)
(* handle_notification_if_up_to_date, as driven by app.lambda_handler.     *)
(*                                                                         *)
(* Every DynamoDB request (get_item, put_item, update_item) is one atomic  *)
(* step; the Python code between two requests is folded into the step of  *)
(* the request that precedes it.  Every delivered notification is handled  *)
(* by an invocation of its own, and the invocations run concurrently.      *)
(* The variable calls records the calls of the current iteration of the    *)
(* while loop: an iteration starts with lock.getCurrentSequencer().        *)
(*                                                                         *)
(* Spec     any interleaving of the invocations; processing_fn returns or  *)
(*          raises; no DynamoDB error other than                           *)
(*          ConditionalCheckFailedException, no crash of an invocation.    *)
(* SpecSeq  the same steps, but a notification is delivered only when no   *)
(*          invocation is running (sequential delivery).                   *)
(***************************************************************************)
EXTENDS Integers, Sequences, FiniteSets, TLC

(* ------------------------------ bounds --------------------------------- *)

\* notifications delivered in one behaviour, each to an invocation of its own
MaxDeliveries == 3

(* --------------------------- Python values ----------------------------- *)

None == [type |-> "NoneType"]

Str(chars) == [type |-> "str", chars |-> chars]

PyInt(n) == [type |-> "int", val |-> n]

\* an attribute that a DynamoDB item does not have
Absent == [type |-> "absent"]

\* processing_fn raised instead of returning a value
Raised == [type |-> "Exception"]

\* response of get_item without 'Item'
NoItem == [type |-> "noitem"]

LOCK_VALUE_LOCKED == "locked"

LOCK_VALUE_UNLOCKED == ""

OUTCOME_OUT_OF_DATE == 1

OUTCOME_PROCESSED == 2

(* ------------------------------ inputs --------------------------------- *)

\* the invocations of lambda_handler, numbered in the order of delivery;
\* the number stands for context.aws_request_id
Invocations == 1..MaxDeliveries

\* S3Lock keys "bucket/key#version" as built by lambda_handler
Keys == {"bar/foo#", "bar/baz#"}

\* sequencers of the unit tests, as code points: '0' < '1' < '1f'
Sequencers == {Str(<<48>>), Str(<<49>>), Str(<<49, 102>>)}

\* the sequencers of the notifications for a key: all of them for the key of
\* the unit tests, the smallest and the greatest for the other key
SequencersOf(k) == IF k = "bar/foo#" THEN Sequencers ELSE {Str(<<48>>), Str(<<49, 102>>)}

\* return value of processing_fn: "hello", as in the unit tests
Results == {Str(<<104, 101, 108, 108, 111>>)}

(* ------------------------------- state --------------------------------- *)

VARIABLES
    table,         \* the DynamoDB lock table: key -> item or NoItem
    pc,            \* where each invocation is in handle_notification_if_up_to_date
    lock,          \* the S3Lock of the invocation: _key, _execution_id
    sequencer,     \* event['detail']['object']['sequencer']
    oldsequencer,  \* the local of the retry loop
    rv,            \* the local rv
    calls,         \* calls made in the current iteration of the while loop
    leaves,        \* the item of its key when the invocation ended
    completed      \* per key: the sequencers for which processing_fn has returned

vars == <<table, pc, lock, sequencer, oldsequencer, rv, calls, leaves, completed>>

NoLock == [_key |-> "", _execution_id |-> 0]

\* per callee the arguments of its calls, processing_fn: its return values or "raised"
NoCalls == [processing_fn |-> <<>>, backoff_fn |-> 0, lockForSequencer |-> <<>>,
            unlock |-> 0, unlockAndRollBack |-> <<>>]

NoRv == <<None, None>>

Init ==
    /\ table = [k \in Keys |-> NoItem]
    /\ pc = [i \in Invocations |-> "pending"]
    /\ lock = [i \in Invocations |-> NoLock]
    /\ sequencer = [i \in Invocations |-> None]
    /\ oldsequencer = [i \in Invocations |-> None]
    /\ rv = [i \in Invocations |-> NoRv]
    /\ calls = [i \in Invocations |-> NoCalls]
    /\ leaves = [i \in Invocations |-> NoItem]
    /\ completed = [k \in Keys |-> {}]

(* ------------------------------ helpers -------------------------------- *)

\* <= instead of <
RECURSIVE StrLess_OrEqual(_, _)
StrLess_OrEqual(a, b) ==
    IF a = <<>> THEN TRUE
    ELSE IF b = <<>> THEN FALSE
    ELSE IF Head(a) = Head(b) THEN StrLess_OrEqual(Tail(a), Tail(b))
    ELSE Head(a) < Head(b)

\* Python's < on two str: lexicographic on code points, a proper prefix is smaller
RECURSIVE StrLess(_, _)
StrLess(a, b) ==
    IF b = <<>> THEN FALSE
    ELSE IF a = <<>> THEN TRUE
    ELSE IF Head(a) = Head(b) THEN StrLess(Tail(a), Tail(b))
    ELSE Head(a) < Head(b)

UpToDate_OrEqual(old, new) == IF old = None THEN TRUE ELSE ~StrLess(new.chars, old.chars)

UpToDate_Always(old, new) == TRUE

UpToDate_NoneIsNewest(old, new) == IF old = None THEN FALSE ELSE StrLess(old.chars, new.chars)

\* the test "oldsequencer is None or oldsequencer < sequencer"
UpToDate(old, new) == IF old = None THEN TRUE ELSE StrLess(old.chars, new.chars)

\* Python truthiness of a str
Truthy(s) == s # ""

\* returns the sequencer of a locked item instead of raising
getCurrentSequencer_IgnoresLock(item) ==
    IF item = NoItem THEN [raises |-> "", value |-> None]
    ELSE [raises |-> "", value |-> item.sequencer]

\* S3Lock.getCurrentSequencer: what it raises ("" for nothing) and returns
getCurrentSequencer(item) ==
    IF item = NoItem THEN [raises |-> "", value |-> None]
    ELSE IF item.sequencer = Absent THEN [raises |-> "KeyError", value |-> None]
    ELSE IF Truthy(item.lock_status) THEN [raises |-> "ItemLockedException", value |-> None]
    ELSE [raises |-> "", value |-> item.sequencer]

ConditionExpression_Unconditional(item, old_sequencer) == TRUE

ConditionExpression_LockStatusOnly(item, old_sequencer) ==
    IF item = NoItem THEN TRUE ELSE item.lock_status = LOCK_VALUE_UNLOCKED

\* NULL = NULL does not hold, as in SQL
ConditionExpression_NullNeverEqual(item, old_sequencer) ==
    IF item = NoItem THEN TRUE
    ELSE IF old_sequencer = None THEN FALSE
    ELSE item.sequencer = old_sequencer /\ item.lock_status = LOCK_VALUE_UNLOCKED

\* the ConditionExpression of lockForSequencer's put_item; a rolled-back None
\* is stored as NULL, and NULL = NULL holds in DynamoDB (the integration test
\* test_doesnt_ignore_duplicate_if_first_processing_attempt_fails relies on it)
ConditionExpression(item, old_sequencer) ==
    IF item = NoItem THEN TRUE
    ELSE item.sequencer = old_sequencer /\ item.lock_status = LOCK_VALUE_UNLOCKED

\* writes the new sequencer without taking the lock
LockedItem_NotLocked(newSequencer, execution_id) ==
    [sequencer |-> newSequencer, lock_status |-> LOCK_VALUE_UNLOCKED, updated_by |-> execution_id]

\* the Item of lockForSequencer's put_item
LockedItem(newSequencer, execution_id) ==
    [sequencer |-> newSequencer, lock_status |-> LOCK_VALUE_LOCKED, updated_by |-> execution_id]

\* update_item creates the item when there is none (without a sequencer then)
ItemOrNew(item) ==
    IF item = NoItem
    THEN [sequencer |-> Absent, lock_status |-> LOCK_VALUE_UNLOCKED, updated_by |-> 0]
    ELSE item

\* leaves the item locked
UnlockedItem_KeepsLock(item, execution_id) ==
    [ItemOrNew(item) EXCEPT !.updated_by = execution_id]

\* deletes the item instead of unlocking it
UnlockedItem_Deletes(item, execution_id) == NoItem

\* the update_item of S3Lock.unlock
UnlockedItem(item, execution_id) ==
    [ItemOrNew(item) EXCEPT !.lock_status = LOCK_VALUE_UNLOCKED, !.updated_by = execution_id]

\* restores the sequencer but leaves the item locked
RolledBackItem_KeepsLock(item, to_sequencer, execution_id) ==
    [ItemOrNew(item) EXCEPT !.updated_by = execution_id, !.sequencer = to_sequencer]

RolledBackItem_KeepsSequencer(item, to_sequencer, execution_id) ==
    [ItemOrNew(item) EXCEPT !.lock_status = LOCK_VALUE_UNLOCKED, !.updated_by = execution_id]

\* the update_item of S3Lock.unlockAndRollBack
RolledBackItem(item, to_sequencer, execution_id) ==
    [ItemOrNew(item) EXCEPT !.lock_status = LOCK_VALUE_UNLOCKED, !.updated_by = execution_id,
                            !.sequencer = to_sequencer]

\* the invocation is running: delivered and neither returned nor raised
Running(i) == pc[i] \in {"read", "lock", "process", "unlock", "rollback"}

Ended(i) == pc[i] \in {"returned", "raised"}

(* ------------------------------ actions -------------------------------- *)

\* lambda_handler builds the S3Lock and calls handle_notification_if_up_to_date
Deliver(i) ==
    /\ pc[i] = "pending"
    /\ \A j \in Invocations : j < i => pc[j] # "pending"
    /\ \E k \in Keys : \E s \in SequencersOf(k) :
          /\ lock' = [lock EXCEPT ![i] = [_key |-> k, _execution_id |-> i]]
          /\ sequencer' = [sequencer EXCEPT ![i] = s]
    /\ pc' = [pc EXCEPT ![i] = "read"]
    /\ UNCHANGED <<table, oldsequencer, rv, calls, leaves, completed>>

\* backs off when the item of any key is locked
ReadLocked_AnyKey(i) ==
    /\ pc[i] = "read"
    /\ \E k \in Keys : getCurrentSequencer(table[k]).raises = "ItemLockedException"
    /\ calls' = [calls EXCEPT ![i] = [NoCalls EXCEPT !.backoff_fn = 1]]
    /\ UNCHANGED <<table, pc, lock, sequencer, oldsequencer, rv, leaves, completed>>

\* getCurrentSequencer raises ItemLockedException: backoff_fn(), next iteration
ReadLocked(i) ==
    /\ pc[i] = "read"
    /\ getCurrentSequencer(table[lock[i]._key]).raises = "ItemLockedException"
    /\ calls' = [calls EXCEPT ![i] = [NoCalls EXCEPT !.backoff_fn = 1]]
    /\ UNCHANGED <<table, pc, lock, sequencer, oldsequencer, rv, leaves, completed>>

\* getCurrentSequencer returns a sequencer older than the notification's, or None
ReadUpToDate(i) ==
    /\ pc[i] = "read"
    /\ LET r == getCurrentSequencer(table[lock[i]._key]) IN
          /\ r.raises = ""
          /\ UpToDate(r.value, sequencer[i])
          /\ oldsequencer' = [oldsequencer EXCEPT ![i] = r.value]
    /\ calls' = [calls EXCEPT ![i] = NoCalls]
    /\ pc' = [pc EXCEPT ![i] = "lock"]
    /\ UNCHANGED <<table, lock, sequencer, rv, leaves, completed>>

\* the value assigned to rv when the notification is skipped
OutOfDate == <<PyInt(OUTCOME_OUT_OF_DATE), None>>

\* getCurrentSequencer returns the same or a newer sequencer: rv is set, break, return rv
ReadOutOfDate(i) ==
    /\ pc[i] = "read"
    /\ LET r == getCurrentSequencer(table[lock[i]._key]) IN
          /\ r.raises = ""
          /\ ~UpToDate(r.value, sequencer[i])
          /\ oldsequencer' = [oldsequencer EXCEPT ![i] = r.value]
    /\ rv' = [rv EXCEPT ![i] = OutOfDate]
    /\ pc' = [pc EXCEPT ![i] = "returned"]
    /\ calls' = [calls EXCEPT ![i] = NoCalls]
    /\ leaves' = [leaves EXCEPT ![i] = table[lock[i]._key]]
    /\ UNCHANGED <<table, lock, sequencer, completed>>

\* lockForSequencer(oldsequencer, sequencer): the conditional put_item succeeds
LockAcquired(i) ==
    /\ pc[i] = "lock"
    /\ ConditionExpression(table[lock[i]._key], oldsequencer[i])
    /\ table' = [table EXCEPT ![lock[i]._key] = LockedItem(sequencer[i], lock[i]._execution_id)]
    /\ calls' = [calls EXCEPT ![i].lockForSequencer = Append(@, <<oldsequencer[i], sequencer[i]>>)]
    /\ pc' = [pc EXCEPT ![i] = "process"]
    /\ UNCHANGED <<lock, sequencer, oldsequencer, rv, leaves, completed>>

\* retries the same put_item without reading again
LockFailed_BlindRetry(i) ==
    /\ pc[i] = "lock"
    /\ ~ConditionExpression(table[lock[i]._key], oldsequencer[i])
    /\ calls' = [calls EXCEPT ![i].lockForSequencer = Append(@, <<oldsequencer[i], sequencer[i]>>),
                              ![i].backoff_fn = @ + 1]
    /\ UNCHANGED <<table, pc, lock, sequencer, oldsequencer, rv, leaves, completed>>

\* ConditionalCheckFailedException: lockForSequencer returns False, backoff_fn(), continue
LockFailed(i) ==
    /\ pc[i] = "lock"
    /\ ~ConditionExpression(table[lock[i]._key], oldsequencer[i])
    /\ calls' = [calls EXCEPT ![i].lockForSequencer = Append(@, <<oldsequencer[i], sequencer[i]>>),
                              ![i].backoff_fn = @ + 1]
    /\ pc' = [pc EXCEPT ![i] = "read"]
    /\ UNCHANGED <<table, lock, sequencer, oldsequencer, rv, leaves, completed>>

Processed_DropsResult(result) == <<PyInt(OUTCOME_PROCESSED), None>>

\* the value assigned to rv when processing_fn returns
Processed(result) == <<PyInt(OUTCOME_PROCESSED), result>>

\* processing_fn(event, context) returns
ProcessingReturns(i) ==
    /\ pc[i] = "process"
    /\ \E result \in Results :
          /\ rv' = [rv EXCEPT ![i] = Processed(result)]
          /\ calls' = [calls EXCEPT ![i].processing_fn = Append(@, result)]
    /\ completed' = [completed EXCEPT ![lock[i]._key] = @ \cup {sequencer[i]}]
    /\ pc' = [pc EXCEPT ![i] = "unlock"]
    /\ UNCHANGED <<table, lock, sequencer, oldsequencer, leaves>>

ProcessingRaises_Swallowed(i) ==
    /\ pc[i] = "process"
    /\ calls' = [calls EXCEPT ![i].processing_fn = Append(@, Raised)]
    /\ rv' = [rv EXCEPT ![i] = <<PyInt(OUTCOME_PROCESSED), None>>]
    /\ pc' = [pc EXCEPT ![i] = "unlock"]
    /\ UNCHANGED <<table, lock, sequencer, oldsequencer, leaves, completed>>

\* processing_fn(event, context) raises
ProcessingRaises(i) ==
    /\ pc[i] = "process"
    /\ calls' = [calls EXCEPT ![i].processing_fn = Append(@, Raised)]
    /\ pc' = [pc EXCEPT ![i] = "rollback"]
    /\ UNCHANGED <<table, lock, sequencer, oldsequencer, rv, leaves, completed>>

\* the else branch: lock.unlock(), break, return rv
Unlock(i) ==
    /\ pc[i] = "unlock"
    /\ table' = [table EXCEPT ![lock[i]._key] = UnlockedItem(@, lock[i]._execution_id)]
    /\ calls' = [calls EXCEPT ![i].unlock = @ + 1]
    /\ pc' = [pc EXCEPT ![i] = "returned"]
    /\ leaves' = [leaves EXCEPT ![i] = table'[lock[i]._key]]
    /\ UNCHANGED <<lock, sequencer, oldsequencer, rv, completed>>

RollBackTo_Incoming(i) == sequencer[i]

\* the argument of lock.unlockAndRollBack in the except branch
RollBackTo(i) == oldsequencer[i]

\* the except branch: lock.unlockAndRollBack(oldsequencer), raise e
UnlockAndRollBack(i) ==
    /\ pc[i] = "rollback"
    /\ table' = [table EXCEPT ![lock[i]._key] =
                    RolledBackItem(@, RollBackTo(i), lock[i]._execution_id)]
    /\ calls' = [calls EXCEPT ![i].unlockAndRollBack = Append(@, RollBackTo(i))]
    /\ pc' = [pc EXCEPT ![i] = "raised"]
    /\ leaves' = [leaves EXCEPT ![i] = table'[lock[i]._key]]
    /\ UNCHANGED <<lock, sequencer, oldsequencer, rv, completed>>

Next ==
    \E i \in Invocations :
        \/ Deliver(i)
        \/ ReadLocked(i)
        \/ ReadUpToDate(i)
        \/ ReadOutOfDate(i)
        \/ LockAcquired(i)
        \/ LockFailed(i)
        \/ ProcessingReturns(i)
        \/ ProcessingRaises(i)
        \/ Unlock(i)
        \/ UnlockAndRollBack(i)

Spec == Init /\ [][Next]_vars

\* a notification is delivered when no invocation is running
DeliverSeq(i) ==
    /\ \A j \in Invocations : ~Running(j)
    /\ Deliver(i)

\* ReadLocked and LockFailed need a second running invocation (SeqNeverContended)
NextSeq ==
    \E i \in Invocations :
        \/ DeliverSeq(i)
        \/ ReadUpToDate(i)
        \/ ReadOutOfDate(i)
        \/ LockAcquired(i)
        \/ ProcessingReturns(i)
        \/ ProcessingRaises(i)
        \/ Unlock(i)
        \/ UnlockAndRollBack(i)

SpecSeq == Init /\ [][NextSeq]_vars

(* ------------------------- DynamoDB errors ----------------------------- *)

(* A request to DynamoDB can fail with an error of the store (a ClientError *)
(* other than ConditionalCheckFailedException, a network error).  The      *)
(* request is then taken not to have been applied.  The invocation is at   *)
(* "error" when such an error has left handle_notification_if_up_to_date.  *)

\* get_item raises: getCurrentSequencer does not catch it, and the loop
\* catches ItemLockedException only
ReadError(i) ==
    /\ pc[i] = "read"
    /\ calls' = [calls EXCEPT ![i] = NoCalls]
    /\ pc' = [pc EXCEPT ![i] = "error"]
    /\ UNCHANGED <<table, lock, sequencer, oldsequencer, rv, leaves, completed>>

\* treats the error of put_item like ConditionalCheckFailedException
LockError_AsContention(i) ==
    /\ pc[i] = "lock"
    /\ calls' = [calls EXCEPT ![i].lockForSequencer = Append(@, <<oldsequencer[i], sequencer[i]>>),
                              ![i].backoff_fn = @ + 1]
    /\ pc' = [pc EXCEPT ![i] = "read"]
    /\ UNCHANGED <<table, lock, sequencer, oldsequencer, rv, leaves, completed>>

\* put_item raises something else than ConditionalCheckFailedException:
\* lockForSequencer re-raises it, outside of the try around processing_fn
LockError(i) ==
    /\ pc[i] = "lock"
    /\ calls' = [calls EXCEPT ![i].lockForSequencer = Append(@, <<oldsequencer[i], sequencer[i]>>)]
    /\ pc' = [pc EXCEPT ![i] = "error"]
    /\ UNCHANGED <<table, lock, sequencer, oldsequencer, rv, leaves, completed>>

\* under SpecErr at most two invocations run at a time
DeliverErr(i) ==
    /\ Cardinality({j \in Invocations : Running(j)}) <= 1
    /\ Deliver(i)

NextErr ==
    \E i \in Invocations :
        \/ DeliverErr(i)
        \/ ReadLocked(i)
        \/ ReadUpToDate(i)
        \/ ReadOutOfDate(i)
        \/ LockAcquired(i)
        \/ LockFailed(i)
        \/ ProcessingReturns(i)
        \/ ProcessingRaises(i)
        \/ Unlock(i)
        \/ UnlockAndRollBack(i)
        \/ ReadError(i)
        \/ LockError(i)

SpecErr == Init /\ [][NextErr]_vars

\* as if unlock() were inside the try: the except branch rolls back
UnlockError_RollsBack(i) ==
    /\ pc[i] = "unlock"
    /\ table' = [table EXCEPT ![lock[i]._key] =
                    RolledBackItem(@, RollBackTo(i), lock[i]._execution_id)]
    /\ calls' = [calls EXCEPT ![i].unlock = @ + 1,
                              ![i].unlockAndRollBack = Append(@, RollBackTo(i))]
    /\ pc' = [pc EXCEPT ![i] = "error"]
    /\ UNCHANGED <<lock, sequencer, oldsequencer, rv, leaves, completed>>

\* the update_item of unlock() raises: the call is in the else branch of
\* the try, which the except branch does not cover; rv is never returned
UnlockError(i) ==
    /\ pc[i] = "unlock"
    /\ calls' = [calls EXCEPT ![i].unlock = @ + 1]
    /\ pc' = [pc EXCEPT ![i] = "error"]
    /\ UNCHANGED <<table, lock, sequencer, oldsequencer, rv, leaves, completed>>

\* the update_item of unlockAndRollBack() raises, inside the except branch
RollBackError(i) ==
    /\ pc[i] = "rollback"
    /\ calls' = [calls EXCEPT ![i].unlockAndRollBack = Append(@, RollBackTo(i))]
    /\ pc' = [pc EXCEPT ![i] = "error"]
    /\ UNCHANGED <<table, lock, sequencer, oldsequencer, rv, leaves, completed>>

\* every request to DynamoDB may fail
NextStoreErr ==
    \/ NextErr
    \/ \E i \in Invocations :
          \/ UnlockError(i)
          \/ RollBackError(i)

SpecStoreErr == Init /\ [][NextStoreErr]_vars

(* ------------------------------ crashes -------------------------------- *)

\* the worker stops (the Lambda times out or is killed) between a successful
\* lockForSequencer and its unlock / unlockAndRollBack: nothing of
\* handle_notification_if_up_to_date runs any more, no except or else
\* branch.  (A worker that stops elsewhere has written nothing: for the
\* table it is an invocation that takes no further step.)
Crash(i) ==
    /\ pc[i] \in {"process", "unlock", "rollback"}
    /\ pc' = [pc EXCEPT ![i] = "crashed"]
    /\ UNCHANGED <<table, lock, sequencer, oldsequencer, rv, calls, leaves, completed>>

\* at most two invocations run at a time, as under SpecErr
NextCrash ==
    \E i \in Invocations :
        \/ DeliverErr(i)
        \/ ReadLocked(i)
        \/ ReadUpToDate(i)
        \/ ReadOutOfDate(i)
        \/ LockAcquired(i)
        \/ LockFailed(i)
        \/ ProcessingReturns(i)
        \/ ProcessingRaises(i)
        \/ Unlock(i)
        \/ UnlockAndRollBack(i)
        \/ Crash(i)

SpecCrash == Init /\ [][NextCrash]_vars

(* ------------------------- fair scheduling ----------------------------- *)

\* a notification for the key of the unit tests
DeliverOneKey(i) ==
    /\ Deliver(i)
    /\ lock'[i]._key = "bar/foo#"

\* a step of the worker that runs invocation i
Worker(i) ==
    \/ ReadLocked(i)
    \/ ReadUpToDate(i)
    \/ ReadOutOfDate(i)
    \/ LockAcquired(i)
    \/ LockFailed(i)
    \/ ProcessingReturns(i)
    \/ ProcessingRaises(i)
    \/ Unlock(i)
    \/ UnlockAndRollBack(i)

NextFair ==
    \E i \in Invocations :
        \/ DeliverOneKey(i)
        \/ Worker(i)

\* concurrent invocations on one key; every worker is scheduled weakly
\* fairly (each runs in a Lambda execution environment of its own), and
\* processing_fn terminates, by returning or by raising
SpecFair ==
    /\ Init
    /\ [][NextFair]_vars
    /\ \A i \in Invocations : WF_vars(Worker(i))

(* ---------------------------- sanity checks ---------------------------- *)

Items ==
    [sequencer : Sequencers \cup {None}, lock_status : {LOCK_VALUE_LOCKED, LOCK_VALUE_UNLOCKED},
     updated_by : Invocations]

TypeOK ==
    /\ \A k \in Keys : table[k] = NoItem \/ table[k] \in Items
    /\ \A i \in Invocations :
          /\ pc[i] \in {"pending", "read", "lock", "process", "unlock", "rollback",
                        "returned", "raised", "error", "crashed"}
          /\ pc[i] = "pending" <=> lock[i] = NoLock
          /\ pc[i] # "pending" => lock[i]._key \in Keys /\ sequencer[i] \in Sequencers
          /\ oldsequencer[i] \in Sequencers \cup {None}
          /\ Ended(i) <=> leaves[i] # NoItem
    /\ \A k \in Keys : completed[k] \subseteq Sequencers

\* under SpecSeq no read finds the item locked and no conditional put fails
SeqNeverContended ==
    \A i \in Invocations :
        /\ pc[i] = "read" => getCurrentSequencer(table[lock[i]._key]).raises = ""
        /\ pc[i] = "lock" => ConditionExpression(table[lock[i]._key], oldsequencer[i])

(* ------------------------------- claims -------------------------------- *)

SameKey(i, j) == lock[i]._key = lock[j]._key

\* between a successful lockForSequencer and its own unlock / unlockAndRollBack
Holder(i) == pc[i] \in {"process", "unlock", "rollback"}

\* a <= b in the order of the sequencers
Leq(a, b) == a = b \/ StrLess(a.chars, b.chars)

\* C1: at no time do two invocations for the same key both stand between a
\* successful lockForSequencer and their own unlock / unlockAndRollBack
C1_MutualExclusion ==
    \A i, j \in Invocations : (i # j /\ Holder(i) /\ Holder(j)) => ~SameKey(i, j)

\* one invocation is processing while another one for the same key, whose
\* conditional put has just failed, is back at the read
C1_Witness ==
    \E i, j \in Invocations :
        /\ i # j /\ pc[i] = "process" /\ pc[j] = "read" /\ SameKey(i, j)
        /\ calls[j].lockForSequencer # <<>>

\* processing_fn has returned a value to invocation i
ReturnedNormally(i) == calls[i].processing_fn # <<>> /\ calls[i].processing_fn[1] # Raised

\* C2: while processing_fn runs for a sequencer, every sequencer for which
\* processing_fn has already returned for that key is strictly smaller: no
\* processing starts for a sequencer <= a completed one, and the completed
\* sequencers of a key grow strictly, each completed at most once
C2_NoStaleProcessing ==
    /\ \A i \in Invocations :
          pc[i] = "process" =>
              \A s \in completed[lock[i]._key] : StrLess(s.chars, sequencer[i].chars)
    /\ \A i, j \in Invocations :
          (i # j /\ SameKey(i, j) /\ sequencer[i] = sequencer[j]) =>
              ~(ReturnedNormally(i) /\ ReturnedNormally(j))

\* an invocation that lost its conditional put (so it had read the record
\* before) finds that a sequencer >= its own has been completed meanwhile
C2_Witness ==
    \E j \in Invocations :
        /\ pc[j] = "read" /\ calls[j].lockForSequencer # <<>>
        /\ \E s \in completed[lock[j]._key] : Leq(sequencer[j], s)

\* invocation i takes a step
Steps(i) ==
    <<pc[i], oldsequencer[i], rv[i], calls[i], leaves[i]>>' #
        <<pc[i], oldsequencer[i], rv[i], calls[i], leaves[i]>>

\* the read of invocation i would find an unlocked item whose sequencer is
\* the same as or newer than the notification's
ReadsNewerOrSame(i) ==
    /\ pc[i] = "read"
    /\ table[lock[i]._key] # NoItem
    /\ table[lock[i]._key].lock_status = LOCK_VALUE_UNLOCKED
    /\ table[lock[i]._key].sequencer # None
    /\ Leq(sequencer[i], table[lock[i]._key].sequencer)

\* C3: when the read returns an unlocked item whose sequencer is >= the
\* incoming one, that step returns (OUTCOME_OUT_OF_DATE, None), calls neither
\* processing_fn nor backoff_fn nor lockForSequencer (nor unlock or
\* unlockAndRollBack), and leaves the whole table as it was
C3_StaleSkipNoSideEffects ==
    [][\A i \in Invocations :
          (ReadsNewerOrSame(i) /\ Steps(i)) =>
              /\ pc'[i] = "returned"
              /\ rv'[i] = <<PyInt(OUTCOME_OUT_OF_DATE), None>>
              /\ calls'[i] = NoCalls
              /\ table' = table
              /\ leaves'[i] = table[lock[i]._key]
              /\ completed' = completed]_vars

\* a notification with the very sequencer of the item has been skipped
C3_Witness ==
    \E i \in Invocations :
        /\ pc[i] = "returned" /\ rv[i] = <<PyInt(OUTCOME_OUT_OF_DATE), None>>
        /\ oldsequencer[i] = sequencer[i]

(* Sequential delivery (SpecSeq): invocation i is older than j iff i < j. *)

\* j is the delivery for the key of i that follows i, and both have ended
Consecutive(i, j) ==
    /\ i < j /\ Ended(i) /\ Ended(j) /\ SameKey(i, j)
    /\ \A m \in Invocations : (i < m /\ m < j) => ~SameKey(i, m)

WasProcessed(i) ==
    /\ pc[i] = "returned" /\ rv[i][1] = PyInt(OUTCOME_PROCESSED)
    /\ Len(calls[i].processing_fn) = 1

WasSkipped(i) ==
    /\ pc[i] = "returned" /\ rv[i] = <<PyInt(OUTCOME_OUT_OF_DATE), None>>
    /\ calls[i].processing_fn = <<>>

\* the sequencer of i was newer than the key's when i was delivered
WasUpToDate(i) ==
    IF oldsequencer[i] = None THEN TRUE
    ELSE StrLess(oldsequencer[i].chars, sequencer[i].chars)

\* i (sequencer a) and then j (sequencer b) are delivered, no processing fails
DeliveredInTurn(i, j) ==
    Consecutive(i, j) /\ WasUpToDate(i) /\ pc[i] # "raised" /\ pc[j] # "raised"

\* C4 as stated: a <= b: a then b processes both; b then a processes b only
C4_AsStated ==
    \A i, j \in Invocations :
        DeliveredInTurn(i, j) =>
            /\ Leq(sequencer[i], sequencer[j]) => WasProcessed(i) /\ WasProcessed(j)
            /\ Leq(sequencer[j], sequencer[i]) => WasProcessed(i) /\ WasSkipped(j)

\* C4 (amended): with sequential delivery and processing succeeding, a then b
\* with a < b processes both; b then a with a <= b processes only b, and the
\* second delivery returns OUTCOME_OUT_OF_DATE (a = b included)
C4_OrderedPair ==
    \A i, j \in Invocations :
        DeliveredInTurn(i, j) =>
            /\ StrLess(sequencer[i].chars, sequencer[j].chars) =>
                   WasProcessed(i) /\ WasProcessed(j)
            /\ Leq(sequencer[j], sequencer[i]) => WasProcessed(i) /\ WasSkipped(j)

\* a then b (a < b) were both processed, and then an older one was skipped
C4_Witness ==
    \E i, j, m \in Invocations :
        /\ DeliveredInTurn(i, j) /\ StrLess(sequencer[i].chars, sequencer[j].chars)
        /\ WasProcessed(i) /\ WasProcessed(j)
        /\ DeliveredInTurn(j, m) /\ StrLess(sequencer[m].chars, sequencer[j].chars)
        /\ WasSkipped(m)

\* C5: the same (key, sequencer) delivered twice in turn, the first one
\* processed: the second returns OUTCOME_OUT_OF_DATE, does not call
\* processing_fn and leaves the item exactly as the first one left it
C5_RedeliveryIdempotent ==
    \A i, j \in Invocations :
        (Consecutive(i, j) /\ sequencer[i] = sequencer[j] /\ WasProcessed(i)) =>
            /\ WasSkipped(j)
            /\ leaves[j] = leaves[i]

\* the second delivery of a processed sequencer has returned
C5_Witness ==
    \E i, j \in Invocations :
        /\ Consecutive(i, j) /\ sequencer[i] = sequencer[j] /\ WasProcessed(i)
        /\ pc[j] = "returned"

\* C6: processing failed for (key, S) when the sequencer read before was P;
\* the next delivery for the key is processed again (processing_fn is
\* called, the outcome is not OUTCOME_OUT_OF_DATE) if its sequencer is S, and
\* is skipped as out of date if its sequencer is <= P
C6_RetryAfterFailure ==
    \A i, j \in Invocations :
        (Consecutive(i, j) /\ pc[i] = "raised") =>
            /\ sequencer[j] = sequencer[i] =>
                   /\ Len(calls[j].processing_fn) = 1
                   /\ pc[j] = "raised" \/ WasProcessed(j)
            /\ (oldsequencer[i] # None /\ Leq(sequencer[j], oldsequencer[i])) => WasSkipped(j)

\* P was processed, S > P failed, and the retried S has been processed
C6_Witness ==
    \E i, j \in Invocations :
        /\ Consecutive(i, j) /\ pc[i] = "raised" /\ oldsequencer[i] # None
        /\ sequencer[j] = sequencer[i] /\ WasProcessed(j)

\* C7: when the invocation raises the error of processing_fn, the item it
\* leaves is unlocked and carries the sequencer that the invocation read
\* before its successful lockForSequencer (a sequencer or None), which is
\* not the incoming sequencer
C7_RollbackState ==
    \A i \in Invocations :
        pc[i] = "raised" =>
            /\ leaves[i] # NoItem
            /\ leaves[i].lock_status = LOCK_VALUE_UNLOCKED
            /\ calls[i].lockForSequencer = <<(<<leaves[i].sequencer, sequencer[i]>>)>>
            /\ leaves[i].sequencer = oldsequencer[i]
            /\ leaves[i].sequencer # sequencer[i]

\* a failed attempt has been rolled back to a sequencer that is not None
C7_Witness ==
    \E i \in Invocations : pc[i] = "raised" /\ oldsequencer[i] \in Sequencers

\* C8: once processing_fn has raised, it has been called exactly once, neither
\* unlock nor backoff_fn is called, the invocation does not go back to the
\* read, and it ends by raising, after exactly one
\* unlockAndRollBack(oldsequencer), without returning an outcome
C8_FailurePropagation ==
    \A i \in Invocations :
        /\ pc[i] \in {"read", "lock", "process"} => calls[i].processing_fn = <<>>
        /\ (calls[i].processing_fn # <<>> /\ calls[i].processing_fn[1] = Raised) =>
              /\ calls[i].processing_fn = <<Raised>>
              /\ calls[i].unlock = 0 /\ calls[i].backoff_fn = 0
              /\ pc[i] \in {"rollback", "raised"}
              /\ rv[i] = NoRv
              /\ pc[i] = "rollback" => calls[i].unlockAndRollBack = <<>>
              /\ pc[i] = "raised" => calls[i].unlockAndRollBack = <<oldsequencer[i]>>
        /\ pc[i] \in {"rollback", "raised"} => calls[i].processing_fn = <<Raised>>

\* an invocation has raised while another one for the same key, which found
\* the item locked and backed off, is still at the read
C8_Witness ==
    \E i, j \in Invocations :
        /\ pc[i] = "raised" /\ i # j /\ SameKey(i, j) /\ pc[j] = "read"
        /\ calls[j].backoff_fn = 1

\* C9: once processing_fn has returned normally (after a read of None or of an
\* older sequencer and a successful lockForSequencer), it has been called
\* exactly once, backoff_fn is not called, and the invocation ends by
\* returning (OUTCOME_PROCESSED, the value processing_fn returned), leaving
\* the item unlocked with the incoming sequencer
C9_SuccessPath ==
    \A i \in Invocations :
        ReturnedNormally(i) =>
            /\ Len(calls[i].processing_fn) = 1
            /\ WasUpToDate(i)
            /\ calls[i].lockForSequencer = <<(<<oldsequencer[i], sequencer[i]>>)>>
            /\ calls[i].backoff_fn = 0 /\ calls[i].unlockAndRollBack = <<>>
            /\ pc[i] \in {"unlock", "returned"}
            /\ rv[i] = <<PyInt(OUTCOME_PROCESSED), calls[i].processing_fn[1]>>
            /\ pc[i] = "returned" =>
                  /\ calls[i].unlock = 1
                  /\ leaves[i] = [sequencer |-> sequencer[i],
                                  lock_status |-> LOCK_VALUE_UNLOCKED,
                                  updated_by |-> lock[i]._execution_id]

\* a notification newer than the item's sequencer has been processed
C9_Witness ==
    \E i \in Invocations :
        /\ pc[i] = "returned" /\ rv[i][1] = PyInt(OUTCOME_PROCESSED)
        /\ oldsequencer[i] \in Sequencers

\* i is the only notification delivered for its key so far
First(i) ==
    /\ pc[i] # "pending"
    /\ \A m \in Invocations : (m # i /\ pc[m] # "pending") => ~SameKey(i, m)

\* C10: the first notification for a key, whatever its sequencer, finds no
\* item, reads None, creates the item by its lockForSequencer(None, sequencer)
\* and gets processing_fn called; it is never skipped as out of date
C10_NoRecordCase ==
    \A i \in Invocations :
        First(i) =>
            /\ pc[i] = "read" => table[lock[i]._key] = NoItem /\ calls[i] = NoCalls
            /\ pc[i] = "lock" => table[lock[i]._key] = NoItem /\ oldsequencer[i] = None
            /\ Holder(i) =>
                  /\ table[lock[i]._key] = LockedItem(sequencer[i], lock[i]._execution_id)
                  /\ calls[i].lockForSequencer = <<(<<None, sequencer[i]>>)>>
            /\ Ended(i) =>
                  /\ Len(calls[i].processing_fn) = 1
                  /\ rv[i][1] # PyInt(OUTCOME_OUT_OF_DATE)
                  /\ leaves[i] # NoItem

\* the first notification of a key has been processed with the smallest
\* sequencer, while the other key has seen a greater one
C10_Witness ==
    \E i, j \in Invocations :
        /\ First(i) /\ WasProcessed(i) /\ sequencer[i] = Str(<<48>>)
        /\ First(j) /\ WasProcessed(j) /\ StrLess(sequencer[i].chars, sequencer[j].chars)

(* Concurrent delivery (Spec). *)

\* the invocations for (k, s) to which processing_fn has returned a value
Winners(k, s) ==
    {i \in Invocations : lock[i]._key = k /\ sequencer[i] = s /\ ReturnedNormally(i)}

\* every notification delivered so far for the key of i has returned, none
\* has raised, and their sequencers are those of i and j only
OnlyTheseReturned(i, j) ==
    /\ pc[i] = "returned" /\ pc[j] = "returned" /\ SameKey(i, j)
    /\ \A m \in Invocations :
          (pc[m] # "pending" /\ SameKey(i, m)) =>
              pc[m] = "returned" /\ sequencer[m] \in {sequencer[i], sequencer[j]}

\* C11 as stated: S1 < S2 delivered concurrently for a key: exactly one
\* invocation is processed for S1 and exactly one for S2
C11_AsStated ==
    \A i, j \in Invocations :
        (OnlyTheseReturned(i, j) /\ StrLess(sequencer[i].chars, sequencer[j].chars)) =>
            /\ Cardinality(Winners(lock[i]._key, sequencer[i])) = 1
            /\ Cardinality(Winners(lock[j]._key, sequencer[j])) = 1

\* C11 (amended): processing_fn returns to at most one invocation per
\* (key, sequencer); when S1 < S2 are the sequencers delivered for a key and
\* all its invocations have returned, exactly one of them was processed for
\* S2, and at most one for S1 (none when S2 took the lock first)
C11_OneWinnerPerSequencer ==
    /\ \A k \in Keys, s \in Sequencers : Cardinality(Winners(k, s)) <= 1
    /\ \A i, j \in Invocations :
          (OnlyTheseReturned(i, j) /\ StrLess(sequencer[i].chars, sequencer[j].chars)) =>
              /\ Cardinality(Winners(lock[j]._key, sequencer[j])) = 1
              /\ \A m \in Winners(lock[j]._key, sequencer[j]) : WasProcessed(m)
              /\ Winners(lock[i]._key, sequencer[i]) = {} <=>
                     \A m \in Invocations :
                         (SameKey(i, m) /\ sequencer[m] = sequencer[i]) => WasSkipped(m)

\* S1 and S2 were both processed and a second S2 was skipped: one winner each
C11_Witness ==
    \E i, j, m \in Invocations :
        /\ OnlyTheseReturned(i, j) /\ StrLess(sequencer[i].chars, sequencer[j].chars)
        /\ WasProcessed(i) /\ WasProcessed(j)
        /\ m # j /\ SameKey(j, m) /\ sequencer[m] = sequencer[j] /\ WasSkipped(m)

\* the lockForSequencer of invocation i has returned True
Won(i) ==
    /\ pc[i] \in {"process", "unlock", "rollback", "returned", "raised"}
    /\ calls[i].lockForSequencer # <<>>

\* lockForSequencer has just returned False to j, and i, with the same key
\* and the same sequencer, has won its own
LostTo(j, i) ==
    /\ i # j /\ SameKey(i, j) /\ sequencer[i] = sequencer[j]
    /\ pc[j] = "read" /\ calls[j].lockForSequencer # <<>>
    /\ Won(i)

\* C12 as stated: of two racing notifications with equal sequencers one wins
\* the compare-and-swap, and the loser's next read, unless it finds the item
\* still locked and backs off, observes incoming <= stored and returns
\* OUTCOME_OUT_OF_DATE
C12_AsStated ==
    [][\A i, j \in Invocations :
          (LostTo(j, i) /\ Steps(j)) =>
              \/ pc'[j] = "read"
              \/ pc'[j] = "returned" /\ rv'[j] = OutOfDate]_vars

\* C12 (amended): two invocations with the same key and sequencer never both
\* hold the lock, and once processing has succeeded for one of them and it
\* has unlocked, the other one cannot acquire the lock: its conditional put
\* fails, its read of the unlocked item finds incoming <= stored, and if it
\* returns, it returns OUTCOME_OUT_OF_DATE without processing.  (While the
\* winner holds the lock the loser backs off; if the winner's processing
\* fails, the rollback lets the loser acquire the lock and process.)
C12_EqualSequencerRace ==
    \A i, j \in Invocations :
        (i # j /\ pc[i] # "pending" /\ pc[j] # "pending"
              /\ SameKey(i, j) /\ sequencer[i] = sequencer[j]) =>
            /\ ~(Holder(i) /\ Holder(j))
            /\ WasProcessed(i) =>
                  /\ ~Holder(j)
                  /\ pc[j] = "lock" => ~ConditionExpression(table[lock[j]._key], oldsequencer[j])
                  /\ (pc[j] = "read" /\ table[lock[j]._key].lock_status = LOCK_VALUE_UNLOCKED)
                        => ReadsNewerOrSame(j)
                  /\ pc[j] = "returned" => WasSkipped(j)

\* j has lost the compare-and-swap to i, whose processing has succeeded, and
\* is about to read the unlocked item
C12_Witness ==
    \E i, j \in Invocations :
        /\ LostTo(j, i) /\ WasProcessed(i)
        /\ table[lock[j]._key].lock_status = LOCK_VALUE_UNLOCKED
        /\ table[lock[j]._key].sequencer = sequencer[j]

\* the read of invocation i would find the item locked
ReadsLocked(i) ==
    /\ pc[i] = "read"
    /\ table[lock[i]._key] # NoItem
    /\ table[lock[i]._key].lock_status = LOCK_VALUE_LOCKED

\* the calls of an iteration that found the item locked: one backoff_fn()
BackedOffOnly == [NoCalls EXCEPT !.backoff_fn = 1]

\* C13: when the read finds the item locked, that iteration calls backoff_fn
\* once and nothing else (no lockForSequencer, no processing_fn, no unlock),
\* the invocation is back at the read, neither returning an outcome nor
\* raising; it writes nothing to the table, and the only processing that
\* can complete meanwhile is the lock holder's
C13_ContentionOnRead ==
    [][\A i \in Invocations :
          ReadsLocked(i) =>
              /\ pc'[i] = "read"
              /\ Steps(i) => calls'[i] = BackedOffOnly
              /\ rv'[i] = NoRv /\ rv[i] = NoRv
              /\ oldsequencer'[i] = oldsequencer[i]
              /\ leaves'[i] = NoItem
              /\ table'[lock[i]._key].updated_by # lock[i]._execution_id
              /\ completed'[lock[i]._key] \subseteq
                     completed[lock[i]._key] \cup {table[lock[i]._key].sequencer}]_vars

\* an invocation has backed off from a locked read while another one holds
\* the lock on its key
C13_Witness ==
    \E i, j \in Invocations :
        /\ i # j /\ SameKey(i, j) /\ Holder(i)
        /\ pc[j] = "read" /\ calls[j] = BackedOffOnly

\* lockForSequencer has just returned False to invocation j
LostCAS(j) == pc[j] = "read" /\ calls[j].lockForSequencer # <<>>

\* what a read of the key of i returns when the item is not locked
StoredSequencer(i) ==
    IF table[lock[i]._key] = NoItem THEN None ELSE table[lock[i]._key].sequencer

NoRecordOrUnlockedAt(i, old) ==
    IF table[lock[i]._key] = NoItem THEN TRUE
    ELSE /\ table[lock[i]._key].sequencer = old
         /\ table[lock[i]._key].lock_status = LOCK_VALUE_UNLOCKED

\* C15: lockForSequencer(old, new) of invocation i, in one step, writes the
\* record (sequencer = new, locked, updated_by = its execution id) and
\* returns True if no record exists for the key or the record has sequencer
\* = old and is unlocked; otherwise it returns False and the table is
\* unchanged; the records of the other keys are unchanged either way
C15_CompareAndSwap ==
    [][\A i \in Invocations :
          (pc[i] = "lock" /\ Steps(i)) =>
              /\ calls'[i].lockForSequencer = <<(<<oldsequencer[i], sequencer[i]>>)>>
              /\ \A k \in Keys : k # lock[i]._key => table'[k] = table[k]
              /\ IF NoRecordOrUnlockedAt(i, oldsequencer[i])
                 THEN /\ table'[lock[i]._key] =
                             [sequencer |-> sequencer[i],
                              lock_status |-> LOCK_VALUE_LOCKED,
                              updated_by |-> lock[i]._execution_id]
                      /\ pc'[i] = "process"
                 ELSE /\ table' = table
                      /\ pc'[i] = "read"]_vars

\* one lockForSequencer(P, S) has returned True on an existing unlocked
\* record with sequencer P, and another one for the same key has returned
\* False
C15_Witness ==
    \E i, j \in Invocations :
        /\ i # j /\ SameKey(i, j)
        /\ pc[i] = "process" /\ oldsequencer[i] \in Sequencers
        /\ LostCAS(j) /\ oldsequencer[j] = oldsequencer[i]

(* DynamoDB errors (SpecErr). *)

\* C16: an error of the store in the read or in lockForSequencer ends the
\* invocation with that error: it comes from the read or the lock step only,
\* writes nothing, calls neither backoff_fn nor processing_fn, sets no
\* outcome, is final (no retry), and leaves the invocation without the lock;
\* backoff_fn is called at the read only when the item is locked, and after
\* lockForSequencer only when its condition did not hold
C16_StoreErrorsPropagate ==
    [][\A i \in Invocations :
          /\ (pc[i] # "error" /\ pc'[i] = "error") =>
                 /\ pc[i] \in {"read", "lock"}
                 /\ table' = table /\ completed' = completed
                 /\ calls'[i].backoff_fn = 0 /\ calls'[i].processing_fn = <<>>
                 /\ calls'[i].unlock = 0 /\ calls'[i].unlockAndRollBack = <<>>
                 /\ rv'[i] = NoRv
                 /\ pc[i] = "read" => calls'[i].lockForSequencer = <<>>
                 /\ IF table'[lock[i]._key] = NoItem THEN TRUE
                    ELSE table'[lock[i]._key].updated_by # lock[i]._execution_id
          /\ pc[i] = "error" =>
                 pc'[i] = "error" /\ calls'[i] = calls[i] /\ rv'[i] = rv[i]
          /\ (pc[i] = "read" /\ Steps(i) /\ pc'[i] = "read") => ReadsLocked(i)
          /\ (pc[i] = "lock" /\ Steps(i) /\ pc'[i] = "read") =>
                 ~NoRecordOrUnlockedAt(i, oldsequencer[i])]_vars

\* one invocation has ended with the error of its put_item, another one with
\* the error of its get_item
C16_Witness ==
    \E i, j \in Invocations :
        /\ i # j /\ pc[i] = "error" /\ pc[j] = "error"
        /\ calls[i].lockForSequencer = <<(<<oldsequencer[i], sequencer[i]>>)>>
        /\ calls[j].lockForSequencer = <<>>

\* the last durably accepted sequencer of key k: the greatest one for which
\* processing_fn has returned, None when there is none
Accepted(k) ==
    IF completed[k] = {} THEN None
    ELSE CHOOSE s \in completed[k] : \A t \in completed[k] : Leq(t, s)

\* a <= b, where None (never set) is below every sequencer
NoneLeq(a, b) == IF a = None THEN TRUE ELSE IF b = None THEN FALSE ELSE Leq(a, b)

\* the step unlocks the item of k and changes its sequencer: a rollback
RollsBack(k) ==
    /\ table[k] # NoItem
    /\ table[k].lock_status = LOCK_VALUE_LOCKED
    /\ table'[k].lock_status = LOCK_VALUE_UNLOCKED
    /\ table'[k].sequencer # table[k].sequencer

\* C17: in every step the stored sequencer of a key stays or grows, except
\* in a rollback, which restores the last durably accepted sequencer (None
\* when nothing was accepted yet), neither more nor less; an unlocked item
\* always carries the last accepted sequencer, a locked one that or a
\* greater one, and the accepted sequencer never decreases
C17_SequencerMonotone ==
    [][\A k \in Keys :
          /\ table[k] # NoItem =>
                 /\ table'[k] # NoItem
                 /\ table[k].lock_status = LOCK_VALUE_UNLOCKED =>
                        table[k].sequencer = Accepted(k)
                 /\ table[k].lock_status = LOCK_VALUE_LOCKED =>
                        /\ table[k].sequencer # None
                        /\ NoneLeq(Accepted(k), table[k].sequencer)
                 /\ IF RollsBack(k)
                    THEN table'[k].sequencer = Accepted(k) /\ Accepted(k)' = Accepted(k)
                    ELSE NoneLeq(table[k].sequencer, table'[k].sequencer)
          /\ NoneLeq(Accepted(k), Accepted(k)')]_vars

\* a sequencer was accepted, a greater one was locked in and then rolled
\* back, and the item carries the accepted one again
C17_Witness ==
    \E i, m \in Invocations :
        /\ SameKey(i, m) /\ WasProcessed(i) /\ pc[m] = "raised"
        /\ StrLess(sequencer[i].chars, sequencer[m].chars)
        /\ leaves[m].sequencer = sequencer[i]
        /\ table[lock[m]._key] = leaves[m]

(* Crashes (SpecCrash). *)

\* the item of k is locked by an invocation that has crashed
Orphaned(k) ==
    /\ table[k] # NoItem
    /\ table[k].lock_status = LOCK_VALUE_LOCKED
    /\ pc[table[k].updated_by] = "crashed"

\* C18: once an invocation has crashed while holding the lock of a key, the
\* item stays locked as it is for ever, and every other invocation for that
\* key only goes back to the read with a backoff_fn(): it never returns an
\* outcome, never raises, never gets lockForSequencer to return True and
\* never calls processing_fn
C18_NoLeaseExpiry ==
    [][\A k \in Keys :
          Orphaned(k) =>
              /\ table'[k] = table[k]
              /\ completed'[k] = completed[k]
              /\ \A j \in Invocations :
                    (lock[j]._key = k /\ Steps(j)) =>
                        /\ pc[j] \in {"read", "lock"}
                        /\ pc'[j] = "read"
                        /\ calls'[j].backoff_fn = 1
                        /\ calls'[j].processing_fn = <<>>
                        /\ rv'[j] = NoRv /\ leaves'[j] = NoItem]_vars

\* the holder of the lock has crashed, one invocation for its key has found
\* the item locked and backed off, another one has lost its compare-and-swap
C18_Witness ==
    \E k \in Keys, j, m \in Invocations :
        /\ Orphaned(k) /\ j # m /\ lock[j]._key = k /\ lock[m]._key = k
        /\ pc[j] = "read" /\ calls[j] = BackedOffOnly
        /\ LostCAS(m)

(* Crash-free executions (Spec), continued. *)

\* C19: from its successful lockForSequencer until its own unlock or
\* unlockAndRollBack, the item of the invocation's key is locked, carries the
\* incoming sequencer and the invocation's execution id: nobody else writes
\* it, and the unconditional update_item of unlock / unlockAndRollBack is
\* made on the caller's own lock, never on the lock of another invocation
C19_LockHeldByOwner ==
    \A i \in Invocations :
        Holder(i) =>
            /\ table[lock[i]._key] # NoItem
            /\ table[lock[i]._key].lock_status = LOCK_VALUE_LOCKED
            /\ table[lock[i]._key].sequencer = sequencer[i]
            /\ table[lock[i]._key].updated_by = lock[i]._execution_id

\* an invocation is about to roll back its own lock after another one for
\* the same key has lost its compare-and-swap
C19_Witness ==
    \E i, j \in Invocations :
        /\ i # j /\ SameKey(i, j) /\ pc[i] = "rollback" /\ LostCAS(j)
        /\ table[lock[i]._key].updated_by = lock[i]._execution_id

\* the invocations delivered so far for key k
Delivered(k) == {i \in Invocations : pc[i] # "pending" /\ lock[i]._key = k}

\* the greatest sequencer delivered so far for key k
Newest(k) ==
    CHOOSE s \in {sequencer[i] : i \in Delivered(k)} :
        \A i \in Delivered(k) : Leq(sequencer[i], s)

\* notifications were delivered for k and every one of them has returned
\* (processing_fn has not raised)
AllReturned(k) == Delivered(k) # {} /\ \A i \in Delivered(k) : pc[i] = "returned"

\* C20: whenever all the notifications delivered for a key have returned, in
\* whatever order and interleaving they ran, the item is unlocked with the
\* greatest delivered sequencer, processing_fn has been run exactly once for
\* that sequencer, and every other delivery of it was skipped as out of date
C20_NewestWins ==
    \A k \in Keys :
        AllReturned(k) =>
            /\ table[k] # NoItem
            /\ table[k].lock_status = LOCK_VALUE_UNLOCKED
            /\ table[k].sequencer = Newest(k)
            /\ Cardinality(Winners(k, Newest(k))) = 1
            /\ \A i \in Delivered(k) :
                  sequencer[i] = Newest(k) => WasProcessed(i) \/ WasSkipped(i)
            /\ Cardinality({i \in Delivered(k) : sequencer[i] = Newest(k) /\ WasProcessed(i)}) = 1

\* three notifications with three sequencers for one key have returned, the
\* middle one skipped because the newest was processed before it
C20_Witness ==
    \E k \in Keys, i, j, m \in Invocations :
        /\ AllReturned(k) /\ {i, j, m} \subseteq Delivered(k)
        /\ StrLess(sequencer[i].chars, sequencer[j].chars)
        /\ StrLess(sequencer[j].chars, sequencer[m].chars)
        /\ WasProcessed(i) /\ WasSkipped(j) /\ WasProcessed(m)
        /\ oldsequencer[m] = sequencer[i]

(* Fair scheduling on one key (SpecFair). *)

\* invocation i has terminated: it has returned an outcome, or raised the
\* error of processing_fn
Terminated(i) ==
    \/ /\ pc[i] = "returned"
       /\ rv[i][1] \in {PyInt(OUTCOME_OUT_OF_DATE), PyInt(OUTCOME_PROCESSED)}
    \/ /\ pc[i] = "raised"
       /\ calls[i].processing_fn = <<Raised>>

\* C21: with every worker scheduled weakly fairly, processing_fn always
\* returning or raising, no crash and no DynamoDB error, every delivered
\* invocation eventually terminates: it returns OUTCOME_OUT_OF_DATE or
\* OUTCOME_PROCESSED, or raises the error of processing_fn.  A terminated
\* invocation stays terminated, so this is: again and again, all the
\* invocations delivered so far have terminated
C21_Termination ==
    []<>(\A i \in Invocations : pc[i] = "pending" \/ Terminated(i))

\* every notification has been delivered and has ended, each in another way:
\* one processed, one skipped as out of date, one raising
C21_Witness ==
    /\ \A i \in Invocations : Ended(i)
    /\ \E i, j, m \in Invocations : WasProcessed(i) /\ WasSkipped(j) /\ pc[m] = "raised"

(* Crash-free executions without DynamoDB errors (Spec), continued. *)

\* the item of key k is locked
Locked(k) == table[k] # NoItem /\ table[k].lock_status = LOCK_VALUE_LOCKED

\* the invocations for key k that have acquired the lock and not yet
\* unlocked or rolled back
Holders(k) == {i \in Invocations : lock[i]._key = k /\ Holder(i)}

\* C22: an invocation that has ended (skipped, processed, or raising the
\* processing error) has left the item unlocked and does not own a locked
\* item; a locked item has exactly one holder, the running invocation that
\* wrote it; and the item of a key without a running invocation is absent
\* or unlocked
C22_NoOrphanedLock ==
    /\ \A i \in Invocations :
          Ended(i) =>
              /\ leaves[i].lock_status = LOCK_VALUE_UNLOCKED
              /\ ~(Locked(lock[i]._key)
                     /\ table[lock[i]._key].updated_by = lock[i]._execution_id)
    /\ \A k \in Keys :
          /\ Locked(k) =>
                /\ Cardinality(Holders(k)) = 1
                /\ \A i \in Holders(k) : table[k].updated_by = lock[i]._execution_id
          /\ (\A i \in Invocations : lock[i]._key = k => ~Running(i)) => ~Locked(k)

\* every invocation of a key has ended, one of them raising, and its item is
\* there, unlocked, while the item of the other key is locked by its holder
C22_Witness ==
    \E k, h \in Keys, i, j \in Invocations :
        /\ k # h /\ lock[i]._key = k /\ pc[i] = "raised"
        /\ \A m \in Invocations : lock[m]._key = k => Ended(m)
        /\ table[k] # NoItem /\ ~Locked(k)
        /\ Locked(h) /\ Holders(h) = {j}

\* the item of key k exists, unlocked, with the sequencer None: the state
\* that a rollback from the unseen state leaves
RolledBackToUnseen(k) ==
    /\ table[k] # NoItem
    /\ table[k].lock_status = LOCK_VALUE_UNLOCKED
    /\ table[k].sequencer = None

\* C23: an item rolled back to None comes from a processing failure of a
\* notification that had read None, with nothing accepted for the key yet;
\* on such an item every notification, whatever its sequencer, behaves as on
\* a key without item: its read returns None and is not out of date, its
\* lockForSequencer(None, sequencer) returns True and writes the locked item,
\* and processing_fn is called
C23_RollbackToUnseen ==
    [][\A i \in Invocations :
          (pc[i] # "pending" /\ RolledBackToUnseen(lock[i]._key)) =>
              /\ completed[lock[i]._key] = {}
              /\ \E m \in Invocations :
                    /\ SameKey(i, m) /\ pc[m] = "raised" /\ oldsequencer[m] = None
                    /\ table[lock[i]._key].updated_by = lock[m]._execution_id
              /\ getCurrentSequencer(table[lock[i]._key]) = getCurrentSequencer(NoItem)
              /\ (pc[i] = "read" /\ Steps(i)) =>
                    /\ pc'[i] = "lock" /\ oldsequencer'[i] = None
                    /\ rv'[i] = NoRv
              /\ (pc[i] = "lock" /\ Steps(i)) =>
                    /\ oldsequencer[i] = None
                    /\ calls'[i].lockForSequencer = <<(<<None, sequencer[i]>>)>>
                    /\ pc'[i] = "process"
                    /\ table'[lock[i]._key] = LockedItem(sequencer[i], lock[i]._execution_id)]_vars

\* the first notification of a key failed from the unseen state, and the
\* same sequencer, delivered again, has been processed on the rolled-back
\* item
C23_Witness ==
    \E i, j \in Invocations :
        /\ i # j /\ SameKey(i, j) /\ sequencer[i] = sequencer[j]
        /\ pc[i] = "raised" /\ oldsequencer[i] = None
        /\ WasProcessed(j) /\ oldsequencer[j] = None

(* DynamoDB errors in every request (SpecStoreErr). *)

\* the error of unlock() has left the invocation, after processing_fn had
\* returned
UnlockFailed(i) == pc[i] = "error" /\ ReturnedNormally(i)

\* C24: when processing_fn has returned and unlock() raises an error of the
\* store, the invocation ends with that error and returns no outcome,
\* unlockAndRollBack is not called, nothing is written, and the item stays
\* locked with the incoming sequencer and the invocation's execution id from
\* then on
C24_UnlockError ==
    [][\A i \in Invocations :
          /\ (pc[i] = "unlock" /\ Steps(i)) =>
                 /\ ReturnedNormally(i)
                 /\ calls'[i].unlock = 1 /\ calls'[i].unlockAndRollBack = <<>>
                 /\ \/ /\ pc'[i] = "returned"
                       /\ table'[lock[i]._key] = UnlockedItem(table[lock[i]._key],
                                                              lock[i]._execution_id)
                    \/ /\ pc'[i] = "error"
                       /\ table' = table
                       /\ leaves'[i] = NoItem
          /\ UnlockFailed(i) =>
                 /\ table[lock[i]._key] = LockedItem(sequencer[i], lock[i]._execution_id)
                 /\ table'[lock[i]._key] = table[lock[i]._key]
                 /\ pc'[i] = "error" /\ calls'[i] = calls[i]
                 /\ calls[i].unlock = 1 /\ calls[i].unlockAndRollBack = <<>>
                 /\ calls[i].backoff_fn = 0
                 /\ leaves[i] = NoItem]_vars

\* unlock() has failed after a successful processing, and another invocation
\* for the same key has found the item locked and backed off
C24_Witness ==
    \E i, j \in Invocations :
        /\ UnlockFailed(i) /\ i # j /\ SameKey(i, j)
        /\ pc[j] = "read" /\ calls[j] = BackedOffOnly
        /\ table[lock[i]._key].sequencer = sequencer[i]

(* Per-key isolation (SpecCrash). *)

\* what the step of invocation i from the read or from lockForSequencer must
\* be, given the item of its own key only
OwnItemDecides(i) ==
    LET item == table[lock[i]._key]
        r == getCurrentSequencer(item)
    IN  /\ pc[i] = "read" =>
              IF r.raises # ""
              THEN pc'[i] = "read" /\ calls'[i] = BackedOffOnly /\ rv'[i] = NoRv
              ELSE /\ oldsequencer'[i] = r.value
                   /\ IF UpToDate(r.value, sequencer[i])
                      THEN pc'[i] = "lock" /\ rv'[i] = NoRv
                      ELSE pc'[i] = "returned" /\ rv'[i] = OutOfDate
        /\ pc[i] = "lock" =>
              IF ConditionExpression(item, oldsequencer[i])
              THEN /\ pc'[i] = "process" /\ calls'[i].backoff_fn = 0
                   /\ table'[lock[i]._key] = LockedItem(sequencer[i], lock[i]._execution_id)
              ELSE /\ pc'[i] = "read" /\ calls'[i].backoff_fn = 1
                   /\ table'[lock[i]._key] = item

\* C25: a step of an invocation for key K leaves the item (and the completed
\* sequencers) of every other key as they were, and what its read and its
\* lockForSequencer do is decided by the item of K alone: it backs off only
\* when the item of K is locked or its compare-and-swap on the item of K
\* fails, whatever the items of the other keys are, even when one of them is
\* locked for ever by a crashed holder; its S3Lock keeps its key
C25_PerKeyIsolation ==
    [][\A i \in Invocations :
          /\ (pc[i] = "pending" /\ Steps(i)) => table' = table /\ completed' = completed
          /\ pc[i] # "pending" => lock'[i] = lock[i]
          /\ (pc[i] # "pending" /\ Steps(i)) =>
                /\ \A k \in Keys \ {lock[i]._key} :
                      table'[k] = table[k] /\ completed'[k] = completed[k]
                /\ OwnItemDecides(i)]_vars

\* the item of one key is locked by a crashed holder and an invocation for
\* that key has backed off on it, while an invocation for the other key has
\* been processed without any backoff
C25_Witness ==
    \E k, h \in Keys, i, m \in Invocations :
        /\ k # h /\ Orphaned(k)
        /\ lock[m]._key = k /\ pc[m] = "read" /\ calls[m] = BackedOffOnly
        /\ lock[i]._key = h /\ pc[i] = "returned"
        /\ rv[i][1] = PyInt(OUTCOME_PROCESSED)
        /\ calls[i].backoff_fn = 0 /\ calls[i].unlock = 1
        /\ table[h] = UnlockedItem(LockedItem(sequencer[i], lock[i]._execution_id),
                                   lock[i]._execution_id)

(* Record lifecycle (SpecStoreErr). *)

\* the step creates the item of key k
Created(k) == table[k] = NoItem /\ table'[k] # NoItem

\* C26: the item of a key comes into existence only by a lockForSequencer
\* that returns True, of an invocation for that key that had read None, and
\* is then the locked item of that put_item; no other step (a read, a skip,
\* a lockForSequencer that returns False or raises, a failed update_item)
\* creates one; an item that exists exists after every step, with a
\* sequencer attribute; and an item is only ever written under the key of
\* the S3Lock that writes it, which never changes
C26_RecordLifecycle ==
    [][/\ \A k \in Keys :
             /\ Created(k) =>
                   \E i \in Invocations :
                       /\ lock[i]._key = k /\ pc[i] = "lock" /\ pc'[i] = "process"
                       /\ oldsequencer[i] = None
                       /\ calls'[i].lockForSequencer = <<(<<None, sequencer[i]>>)>>
                       /\ table'[k] = LockedItem(sequencer[i], lock[i]._execution_id)
             /\ table[k] # NoItem =>
                   /\ table'[k] # NoItem
                   /\ table'[k].sequencer # Absent
             /\ table'[k] # table[k] =>
                   \E i \in Invocations :
                       /\ lock[i]._key = k /\ lock'[i] = lock[i] /\ Steps(i)
                       /\ table'[k].updated_by = lock[i]._execution_id
       /\ \A i \in Invocations :
             (Steps(i) /\ pc'[i] \in {"read", "returned", "error"}) =>
                 \A k \in Keys : ~Created(k)]_vars

\* the item of one key is there, created by the lockForSequencer of an
\* invocation that has ended since, while the other key has no item although
\* two invocations for it have ended: one with the error of its put_item,
\* one with the error of its get_item
C26_Witness ==
    \E k, h \in Keys, i, j, m \in Invocations :
        /\ k # h /\ table[k] # NoItem /\ table[h] = NoItem
        /\ lock[i]._key = k /\ Ended(i) /\ calls[i].lockForSequencer # <<>>
        /\ lock[j]._key = h /\ pc[j] = "error" /\ calls[j].lockForSequencer # <<>>
        /\ lock[m]._key = h /\ pc[m] = "error" /\ calls[m].lockForSequencer = <<>>

====
